---- MODULE Spec2Model ----
(***************************************************************************)
(* A model of src/app.py: a Streamlit script that the host executes from    *)
(* top to bottom on every render pass of a session.  It lists catalogs,     *)
(* schemas and tables of a SQL warehouse through run_query, filters each    *)
(* list with a free-text filter, and once a catalog, a schema and a table   *)
(* are selected issues a fixed sequence of analytics queries, rendering one *)
(* panel per query.                                                         *)
(*                                                                         *)
(* The model follows the passes of one session statement by statement.      *)
(* The host runs the passes of the other sessions of the process in other   *)
(* threads at the same time; all that a pass shares with them is the cached *)
(* connection, so the other sessions appear through the steps of their     *)
(* run_query calls that touch it (OtherRunQueryGetConnection,               *)
(* OtherRunQueryCursor, OtherRunQueryExit).  The host also ends a running   *)
(* pass at one of its st.* calls when an event of its own session asks for  *)
(* a rerun (Interrupt).                                                     *)
(*                                                                         *)
(* Strings the program computes with (names, filters) are sequences of      *)
(* characters, so that lower() and the substring test `in` are computed     *)
(* rather than assumed.  An ASCII character is written as itself, any other *)
(* character by its code point, "U+00C9".  A SQL statement is the sequence  *)
(* of the literal chunks of its f-string and the characters of the names    *)
(* substituted into it.  Labels are written without emoji and backticks.    *)
(* Layout calls (st.set_page_config, st.columns) put nothing on the page.   *)
(***************************************************************************)
EXTENDS Integers, Sequences, FiniteSets, TLC

VARIABLES
    cache,              \* st.cache_resource entry of get_connection: NoConn or a handle
    connects,           \* number of sql.connect calls that returned a handle
    open_cursors,       \* cursors opened on the connection and not yet closed
    other_rq,           \* position of each other session inside its run_query call
    pass,               \* ordinal of the render pass being executed
    pc,                 \* the statement of the script that runs next
    rq,                 \* position inside run_query
    query,              \* run_query's parameter
    conn,               \* run_query's local conn
    result,             \* run_query's local result / its return value
    catalog_list, catalog_filter, filtered_catalogs, selected_catalog,
    schema_list, schema_filter, filtered_schemas, selected_schema,
    table_list, table_filter, filtered_tables, default_idx, selected_table,
    table_fqn,
    queries,            \* statements handed to cursor.execute in this pass, in order
    rendered            \* elements the pass has put on the page, in order

selector_vars == <<catalog_list, catalog_filter, filtered_catalogs, selected_catalog,
                   schema_list, schema_filter, filtered_schemas, selected_schema,
                   table_list, table_filter, filtered_tables, default_idx,
                   selected_table, table_fqn>>
shared_vars == <<cache, connects, open_cursors, other_rq>>
executor_vars == <<rq, query, conn, result>>
script_vars == <<pass, pc, queries, rendered, selector_vars, executor_vars>>
vars == <<script_vars, shared_vars>>

(***************************************************************************)
(* Bounds of the model.                                                     *)
(***************************************************************************)
\* Render passes of the session in a behaviour.
MaxPasses == 2

(***************************************************************************)
(* Strings.                                                                 *)
(***************************************************************************)
Range(s) == {s[i] : i \in DOMAIN s}

\* str.lower() of a one-character string: the characters of the result.
\* The table has the ASCII letters, LATIN CAPITAL LETTER E WITH ACUTE and
\* LATIN CAPITAL LETTER I WITH DOT ABOVE (whose lower case is two characters:
\* i and COMBINING DOT ABOVE); these are the capital letters of the names
\* and filters below.  Every other character there is its own lower case.
LowerChar(ch) ==
    CASE ch = "A" -> <<"a">> [] ch = "B" -> <<"b">> [] ch = "C" -> <<"c">>
      [] ch = "D" -> <<"d">> [] ch = "E" -> <<"e">> [] ch = "F" -> <<"f">>
      [] ch = "G" -> <<"g">> [] ch = "H" -> <<"h">> [] ch = "I" -> <<"i">>
      [] ch = "J" -> <<"j">> [] ch = "K" -> <<"k">> [] ch = "L" -> <<"l">>
      [] ch = "M" -> <<"m">> [] ch = "N" -> <<"n">> [] ch = "O" -> <<"o">>
      [] ch = "P" -> <<"p">> [] ch = "Q" -> <<"q">> [] ch = "R" -> <<"r">>
      [] ch = "S" -> <<"s">> [] ch = "T" -> <<"t">> [] ch = "U" -> <<"u">>
      [] ch = "V" -> <<"v">> [] ch = "W" -> <<"w">> [] ch = "X" -> <<"x">>
      [] ch = "Y" -> <<"y">> [] ch = "Z" -> <<"z">>
      [] ch = "U+00C9" -> <<"U+00E9">>
      [] ch = "U+0130" -> <<"i", "U+0307">>
      [] OTHER -> <<ch>>

\* str.lower(): the lower cases of the characters, one after the other.
RECURSIVE Lower(_)
Lower(s) == IF s = <<>> THEN <<>> ELSE LowerChar(Head(s)) \o Lower(Tail(s))

\* Python's `needle in haystack` on two strings.
StrIn(needle, haystack) ==
    \E k \in 0..(Len(haystack) - Len(needle)) :
        SubSeq(haystack, k + 1, k + Len(needle)) = needle

\* The missing values of a result column (None, NaN), and Python's None.
Null == <<"<null>">>
NaN == <<"<nan>">>
None == <<"<None>">>

\* Mutant: the guard is written `is not None`.
TruthyNotNone(x) == x # None

\* bool(x) of a selection: None and the empty string are falsy.
Truthy(x) == x # None /\ x # <<>>

\* The literal "claims_enriched" of line 122.
claims_enriched ==
    <<"c","l","a","i","m","s","_","e","n","r","i","c","h","e","d">>

(***************************************************************************)
(* The selector's pure steps.                                               *)
(***************************************************************************)
\* Mutant: the filter is compared without lower() on the candidate.
MatchesCaseSensitive(f, c) == StrIn(Lower(f), c)

\* `f.lower() in c.lower()` of lines 84, 101, 118.
Matches(f, c) == StrIn(Lower(f), Lower(c))

\* [c for c in candidates if f.lower() in c.lower()]
FilterList(candidates, f) == SelectSeq(candidates, LAMBDA c : Matches(f, c))

\* list.index(x): the 0-based position of the first occurrence.
ListIndex(list, x) ==
    (CHOOSE i \in 1..Len(list) :
        list[i] = x /\ \A j \in 1..(i - 1) : list[j] # x) - 1

\* Mutant: the preferred table is never looked for.
DefaultIdxFirst(filtered) == 0

\* default_idx of line 122.
DefaultIdx(filtered) ==
    IF claims_enriched \in Range(filtered)
    THEN ListIndex(filtered, claims_enriched)
    ELSE 0

(***************************************************************************)
(* Tabular results (pandas DataFrames): column names and rows of values.    *)
(***************************************************************************)
DataFrame(columns, rows) == [columns |-> columns, rows |-> rows]

\* pd.DataFrame() of line 68.
EmptyDataFrame == DataFrame(<<>>, <<>>)

\* Mutant: the test of df.empty is left out.
DfEmptyNever(df) == FALSE

\* df.empty: some axis has length 0.
DfEmpty(df) == Len(df.columns) = 0 \/ Len(df.rows) = 0

\* df[df.columns[k-1]] as a list of values.
Column(df, k) == [i \in 1..Len(df.rows) |-> df.rows[i][k]]

\* .dropna().tolist()
DropNa(values) == SelectSeq(values, LAMBDA v : v # Null /\ v # NaN)

\* Position (1-based) of the column tcol of line 115: "tableName" when the
\* result has it, else the second column; 0 when there is no second column
\* (tables_df.columns[1] raises IndexError).
TableColumn(df) ==
    IF "tableName" \in Range(df.columns)
    THEN CHOOSE k \in 1..Len(df.columns) :
            df.columns[k] = "tableName" /\ \A j \in 1..(k - 1) : df.columns[j] # "tableName"
    ELSE IF Len(df.columns) >= 2 THEN 2 ELSE 0

(***************************************************************************)
(* SQL text.  Lit(s) is a literal chunk of an f-string.                     *)
(***************************************************************************)
Lit(s) == <<s>>

ShowCatalogsSQL == Lit("SHOW CATALOGS")

\* Mutant: the statement is built from the text of the filter box.
ShowSchemasSQLFromFilter(catalog) == Lit("SHOW SCHEMAS IN ") \o catalog_filter

\* f"SHOW SCHEMAS IN {selected_catalog}"
ShowSchemasSQL(catalog) == Lit("SHOW SCHEMAS IN ") \o catalog

\* f"SHOW TABLES IN {selected_catalog}.{selected_schema}"
ShowTablesSQL(catalog, schema) ==
    Lit("SHOW TABLES IN ") \o catalog \o Lit(".") \o schema

\* f"{selected_catalog}.{selected_schema}.{selected_table}"
TableFqn(catalog, schema, table) ==
    catalog \o Lit(".") \o schema \o Lit(".") \o table

PreviewSQL(fqn) == Lit("SELECT * FROM ") \o fqn \o Lit(" LIMIT 100")

KpiSQL(fqn) ==
    Lit("\n        SELECT \n            COUNT(*) AS total_claims,\n            SUM(COALESCE(total_charge, 0)) AS total_charges,\n            COUNT(DISTINCT member_id) AS distinct_members,\n            COUNT(DISTINCT provider_id) AS distinct_providers,\n            SUM(CASE WHEN claim_status = 'denied' THEN 1 ELSE 0 END)/COUNT(*) AS denial_rate\n        FROM ")
    \o fqn \o Lit("\n    ")

StatusSQL(fqn) ==
    Lit("SELECT claim_status, COUNT(*) as n_claims FROM ") \o fqn
    \o Lit(" GROUP BY claim_status")

MonthlyTrendSQL(fqn) ==
    Lit("\n        SELECT substr(claim_date,1,7) as month, SUM(total_charge) as charges,\n               SUM(CASE WHEN claim_status='denied' THEN total_charge ELSE 0 END) as denied_amt\n        FROM ")
    \o fqn \o Lit(" GROUP BY month ORDER BY month\n    ")

DenialReasonSQL(fqn) ==
    Lit("\n        SELECT diagnosis_desc, COUNT(*) as denied_claims\n        FROM ")
    \o fqn
    \o Lit("\n        WHERE claim_status='denied'\n        GROUP BY diagnosis_desc\n        ORDER BY denied_claims DESC LIMIT 10\n    ")

DenialByProviderSQL(fqn) ==
    Lit("\n        SELECT provider_name,\n               SUM(CASE WHEN claim_status='denied' THEN 1 ELSE 0 END)/COUNT(*) as denial_rate,\n               COUNT(*) as total\n        FROM ")
    \o fqn
    \o Lit("\n        GROUP BY provider_name HAVING total >= 3\n        ORDER BY denial_rate DESC LIMIT 10\n    ")

DiagSQL(fqn) ==
    Lit("\n        SELECT diagnosis_desc, COUNT(*) as n_claims, SUM(total_charge) as charges\n        FROM ")
    \o fqn
    \o Lit("\n        GROUP BY diagnosis_desc ORDER BY charges DESC LIMIT 10\n    ")

ProvSQL(fqn) ==
    Lit("\n        SELECT provider_name, SUM(total_charge) as charges, COUNT(*) as n_claims\n        FROM ")
    \o fqn
    \o Lit("\n        GROUP BY provider_name ORDER BY charges DESC LIMIT 10\n    ")

OutlierSQL(fqn) ==
    Lit("\n        SELECT *\n        FROM ") \o fqn
    \o Lit("\n        WHERE total_charge > (\n            SELECT AVG(total_charge) + 3*STDDEV(total_charge) FROM ")
    \o fqn
    \o Lit("\n        )\n        ORDER BY total_charge DESC LIMIT 10\n    ")

\* The analytics statements of one pass, in the order the script issues them.
AnalyticsSQL(fqn) ==
    << PreviewSQL(fqn), KpiSQL(fqn), StatusSQL(fqn), MonthlyTrendSQL(fqn),
       DenialReasonSQL(fqn), DenialByProviderSQL(fqn), DiagSQL(fqn),
       ProvSQL(fqn), OutlierSQL(fqn) >>


(***************************************************************************)
(* The warehouse.  It is outside the program: what a statement returns is   *)
(* a choice among the results below.  The content is a small tree: catalog  *)
(* Claims_DB has the schemas raw and Iste, Claims_DB.Iste has tables, and   *)
(* every other scope lists nothing, only missing values, or one name that   *)
(* is the empty string.                                                     *)
(***************************************************************************)
sales == <<"s","a","l","e","s">>
Claims_DB == <<"C","l","a","i","m","s","_","D","B">>
raw == <<"r","a","w">>
\* A name with the capital letters I WITH DOT ABOVE and E WITH ACUTE.
Iste == <<"U+0130","s","t","U+00C9">>
members == <<"m","e","m","b","e","r","s">>
Claims_Enriched ==
    <<"C","l","a","i","m","s","_","E","n","r","i","c","h","e","d">>

\* What the user may have typed into a filter box; the third is T followed
\* by SMALL LETTER E WITH ACUTE.
Filters == { <<>>, <<"C","L","A">>, <<"T","U+00E9">>, <<"z","z">> }

\* The sessions of the process other than the one whose passes are followed.
OtherSessions == { "other" }

\* A one-column listing.
NamesDF(column, names) ==
    DataFrame(<<column>>, [i \in 1..Len(names) |-> <<names[i]>>])

\* A SHOW TABLES listing: (database, tableName, isTemporary).
TablesDF(names) ==
    DataFrame(<<"database", "tableName", "isTemporary">>,
              [i \in 1..Len(names) |-> <<Iste, names[i], <<"f">>>>])

\* A listing whose second column holds the names under another header.
TablesAltDF(names) ==
    DataFrame(<<"namespace", "viewName">>,
              [i \in 1..Len(names) |-> <<Iste, names[i]>>])

EdgeListings(column) ==
    { NamesDF(column, <<>>), NamesDF(column, <<Null>>), NamesDF(column, << <<>> >>) }

\* The columns of kpi_query (lines 141-145).
KpiColumns ==
    <<"total_claims", "total_charges", "distinct_members",
      "distinct_providers", "denial_rate">>

\* The one row of the KPI aggregate: over a table with rows; over a table
\* without rows, where the two sums are NULL and arrive as None or as NaN.
KpiRows ==
    { << <<"1">>, <<"1">>, <<"1">>, <<"1">>, <<"1">> >>,
      << <<"0">>, Null, <<"0">>, <<"0">>, Null >>,
      << <<"0">>, NaN, <<"0">>, <<"0">>, NaN >> }

\* The results the warehouse may materialize for a statement.
Warehouse(q) ==
    IF q = ShowCatalogsSQL
    THEN EdgeListings("catalog") \cup { NamesDF("catalog", <<sales, Claims_DB>>) }
    ELSE IF Head(q) = "SHOW SCHEMAS IN "
    THEN IF q = ShowSchemasSQL(Claims_DB)
         THEN { NamesDF("databaseName", <<raw, Iste>>) }
         ELSE EdgeListings("databaseName")
    ELSE IF Head(q) = "SHOW TABLES IN "
    THEN IF q = ShowTablesSQL(Claims_DB, Iste)
         THEN { TablesDF(<<members, Claims_Enriched, claims_enriched>>),
                TablesAltDF(<<Claims_Enriched, members>>) }
         ELSE EdgeListings("tableName")
                \cup { TablesDF(<< <<>> >>), TablesAltDF(<<>>) }
    ELSE IF Head(q) = Head(KpiSQL(<<>>))
    THEN { DataFrame(KpiColumns, <<row>>) : row \in KpiRows }
            \cup { DataFrame(KpiColumns, <<>>) }
    ELSE { DataFrame(<<"c">>, << <<"1">> >>), DataFrame(<<"c">>, <<>>) }

(***************************************************************************)
(* Page elements.                                                           *)
(***************************************************************************)
Elem(kind, text) == [kind |-> kind, label |-> Lit(text)]
Selectbox(text, index) == [kind |-> "selectbox", label |-> Lit(text), index |-> index]
Subheader(fqn) ==
    [kind |-> "subheader", label |-> Lit("Data from ") \o fqn]
\* The box the host shows for an exception the script did not catch.
Exception(class) == [kind |-> "exception", label |-> Lit(class)]
\* st.title of line 48.
Title == Elem("title", "Claims Enriched Table Explorer (Horizontal Filters + Analytics)")

(***************************************************************************)
(* Query Executor: get_connection and run_query (lines 55-68).              *)
(***************************************************************************)
\* to_pandas() yielding no result (the None of line 68); also the value of
\* result while no call has produced one.
NoResult == [none |-> TRUE]

Handle(n) == [id |-> n]
NoConn == [none |-> TRUE]

\* Mutant: the cached handle is never found, every call connects anew.
CacheLookupMiss(entry) == NoConn

\* @st.cache_resource: the stored return value of get_connection, if any.
\* The host computes a missing entry under the cache's lock, so looking the
\* entry up, calling sql.connect and storing the handle are one step for
\* the other threads.
CacheLookup(entry) == entry

\* Mutant: the cursor is closed only when no exception is propagating.
CursorsAfterExitLeak(n, raising) == IF raising THEN n ELSE n - 1

\* The block of `with conn.cursor() as cursor:` is left: the cursor is
\* closed, whether the block ended normally or by an exception.
CursorsAfterExit(n, raising) == n - 1

\* The script calls run_query(sql) and waits at `site` for its value.
Call(site, sql) == pc' = site /\ rq' = "call" /\ query' = sql /\ result' = NoResult

\* The pass is over: the script ended (p = "done"), called st.stop()
\* (p = "stopped"), died of an uncaught exception (p = "error") or was ended
\* by the host for a rerun (p = "interrupted"); no run_query frame is left.
Finish(p) == pc' = p /\ rq' = "idle" /\ query' = None /\ result' = NoResult

\* Mutant: the exception is swallowed and the caller gets an empty result.
PropagateSwallowed(class) ==
    /\ rq' = "returned" /\ result' = EmptyDataFrame
    /\ UNCHANGED <<pc, query, rendered>>

\* Mutant: run_query is called again after a failure.
PropagateRetry(class) ==
    /\ rq' = "call"
    /\ UNCHANGED <<pc, query, result, rendered>>

\* An exception nothing catches ends the pass; the host shows it.
Propagate(class) ==
    /\ Finish("error")
    /\ rendered' = Append(rendered, Exception(class))

\* The st.* calls that show `shown` are followed by st.stop().
Stop(shown) == rendered' = rendered \o shown /\ Finish("stopped")

\* An event of the session has asked for a rerun: the st.* call the script
\* makes after showing `shown` ends the pass, and the host starts the next.
Interrupt(shown) ==
    /\ pass < MaxPasses
    /\ rendered' = rendered \o shown
    /\ Finish("interrupted")

\* The pass is ended at one of the st.* calls that show elems, or, when
\* a layout call follows them (tail), at that call.
InterruptWithin(elems, tail) ==
    \E n \in 0..(IF tail THEN Len(elems) ELSE Len(elems) - 1) :
        Interrupt(SubSeq(elems, 1, n))

Running == pc \notin {"done", "stopped", "error", "interrupted"}

\* Line 64: conn = get_connection().  It returns the cached handle, or
\* calls sql.connect, which returns a handle (then cached) or raises.  The
\* host shows a spinner around the call (an st.* call on entry and one on
\* exit, the handle being stored by then), so that a rerun asked for by the
\* session ends the pass here: before anything was done, or with the
\* connection made and cached.
RunQueryGetConnection ==
    /\ Running /\ rq = "call"
    /\ LET hit == CacheLookup(cache) IN
        \/ /\ hit # NoConn
           /\ conn' = hit
           /\ rq' = "connected"
           /\ UNCHANGED <<cache, connects, pc, query, result, rendered>>
        \/ /\ hit = NoConn
           /\ connects' = connects + 1
           /\ cache' = Handle(connects')
           /\ \/ /\ conn' = cache'
                 /\ rq' = "connected"
                 /\ UNCHANGED <<pc, query, result, rendered>>
              \/ /\ Interrupt(<<>>)
                 /\ UNCHANGED conn
        \/ /\ hit = NoConn
           /\ Propagate("ConnectionError")
           /\ UNCHANGED <<cache, connects, conn>>
        \/ /\ Interrupt(<<>>)
           /\ UNCHANGED <<cache, connects, conn>>
    /\ UNCHANGED <<pass, queries, selector_vars, open_cursors, other_rq>>

\* Line 65: conn.cursor() opens a cursor on the handle.
RunQueryCursor ==
    /\ rq = "connected"
    /\ open_cursors' = open_cursors + 1
    /\ rq' = "cursor"
    /\ UNCHANGED <<pass, pc, queries, rendered, selector_vars, query, conn,
                   result, cache, connects, other_rq>>

\* Line 66: cursor.execute(query) is accepted or raises.
RunQueryExecute ==
    /\ rq = "cursor"
    /\ queries' = Append(queries, query)
    /\ \/ rq' = "executed"
       \/ rq' = "raising"
    /\ UNCHANGED <<pass, pc, rendered, selector_vars, query, conn, result,
                   shared_vars>>

\* Line 67: cursor.fetchall_arrow().to_pandas() yields a result or raises.
RunQueryFetch ==
    /\ rq = "executed"
    /\ \/ /\ result' \in Warehouse(query) \cup {NoResult}
          /\ rq' = "fetched"
       \/ /\ rq' = "raising"
          /\ result' = result
    /\ UNCHANGED <<pass, pc, queries, rendered, selector_vars, query, conn,
                   shared_vars>>

\* The with block is left and run_query returns (line 68) or lets the
\* exception through, which ends the pass.
RunQueryExit ==
    /\ rq \in {"fetched", "raising"}
    /\ open_cursors' = CursorsAfterExit(open_cursors, rq = "raising")
    /\ conn' = NoConn
    /\ \/ /\ rq = "fetched"
          /\ rq' = "returned"
          /\ result' = IF result # NoResult THEN result ELSE EmptyDataFrame
          /\ UNCHANGED <<pc, query, rendered>>
       \/ /\ rq = "raising"
          /\ Propagate("QueryExecutionError")
    /\ UNCHANGED <<pass, queries, selector_vars, cache, connects, other_rq>>

\* A pass of another session is at line 64 of its own run_query call: it
\* gets the cached handle, or connects and caches the handle.  (When its
\* sql.connect raises nothing shared changes.)
OtherRunQueryGetConnection ==
    /\ \E s \in OtherSessions :
        /\ other_rq[s] = "idle"
        /\ other_rq' = [other_rq EXCEPT ![s] = "connected"]
    /\ LET hit == CacheLookup(cache) IN
        \/ /\ hit # NoConn
           /\ UNCHANGED <<cache, connects>>
        \/ /\ hit = NoConn
           /\ connects' = connects + 1
           /\ cache' = Handle(connects')
    /\ UNCHANGED <<script_vars, open_cursors>>

\* That call is at line 65 and opens its cursor.
OtherRunQueryCursor ==
    /\ \E s \in OtherSessions :
        /\ other_rq[s] = "connected"
        /\ other_rq' = [other_rq EXCEPT ![s] = "cursor"]
    /\ open_cursors' = open_cursors + 1
    /\ UNCHANGED <<script_vars, cache, connects>>

\* That call leaves its with block, normally or by an exception.
OtherRunQueryExit ==
    /\ \E s \in OtherSessions :
        /\ other_rq[s] = "cursor"
        /\ other_rq' = [other_rq EXCEPT ![s] = "idle"]
    /\ \E raising \in BOOLEAN :
        open_cursors' = CursorsAfterExit(open_cursors, raising)
    /\ UNCHANGED <<script_vars, cache, connects>>

(***************************************************************************)
(* Cascading Selector (lines 73-123).  One step per stage: from the return  *)
(* of the stage's listing query to the next call of run_query (or to the    *)
(* end of the pass).  The text in the filter box and the option the         *)
(* selectbox returns are the user's: any filter of Filters, any option.     *)
(***************************************************************************)
catalog_work == <<catalog_list, catalog_filter, filtered_catalogs>>
schema_work == <<schema_list, schema_filter, filtered_schemas>>
table_work == <<table_list, table_filter, filtered_tables, default_idx>>

\* Lines 77-94 and, when the schema stage is skipped, the guards of lines
\* 110 and 128.
CatalogStage ==
    /\ pc = "catalogs_df" /\ rq = "returned"
    /\ IF DfEmpty(result)
       THEN /\ \/ Stop(<< Elem("error", "No catalogs available; check permissions.") >>)
               \/ Interrupt(<<>>)
            /\ UNCHANGED <<catalog_work, selected_catalog>>
       ELSE LET list == DropNa(Column(result, 1)) IN
            /\ catalog_list' = list
            /\ \/ /\ Interrupt(<<>>)
                  /\ UNCHANGED <<catalog_filter, filtered_catalogs, selected_catalog>>
               \/ \E f \in Filters :
                    LET filtered == FilterList(list, f) IN
                    /\ catalog_filter' = f
                    /\ filtered_catalogs' = filtered
                    /\ \/ /\ Interrupt(<< Elem("text_input", "Catalog filter") >>)
                          /\ UNCHANGED selected_catalog
                       \/ /\ filtered = <<>>
                          /\ Stop(<< Elem("text_input", "Catalog filter"),
                                     Elem("warning", "No catalogs match.") >>)
                          /\ UNCHANGED selected_catalog
                       \/ \E c \in Range(filtered) :
                            /\ rendered' = rendered \o
                                << Elem("text_input", "Catalog filter"),
                                   Selectbox("Catalog", 0) >>
                            /\ selected_catalog' = c
                            /\ IF Truthy(c)
                               THEN Call("schemas_df", ShowSchemasSQL(c))
                               ELSE Finish("done")
    /\ UNCHANGED <<pass, queries, schema_work, table_work,
                   selected_schema, selected_table, table_fqn, conn, shared_vars>>

\* Lines 95-111 and, when the table stage is skipped, the guard of line 128.
SchemaStage ==
    /\ pc = "schemas_df" /\ rq = "returned"
    /\ IF DfEmpty(result)
       THEN /\ \/ Stop(<< Elem("error", "No schemas found.") >>)
               \/ Interrupt(<<>>)
            /\ UNCHANGED <<schema_work, selected_schema>>
       ELSE LET list == DropNa(Column(result, 1)) IN
            /\ schema_list' = list
            /\ \/ /\ Interrupt(<<>>)
                  /\ UNCHANGED <<schema_filter, filtered_schemas, selected_schema>>
               \/ \E f \in Filters :
                    LET filtered == FilterList(list, f) IN
                    /\ schema_filter' = f
                    /\ filtered_schemas' = filtered
                    /\ \/ /\ Interrupt(<< Elem("text_input", "Schema filter") >>)
                          /\ UNCHANGED selected_schema
                       \/ /\ filtered = <<>>
                          /\ Stop(<< Elem("text_input", "Schema filter"),
                                     Elem("warning", "No schemas match.") >>)
                          /\ UNCHANGED selected_schema
                       \/ \E c \in Range(filtered) :
                            /\ rendered' = rendered \o
                                << Elem("text_input", "Schema filter"),
                                   Selectbox("Schema", 0) >>
                            /\ selected_schema' = c
                            /\ IF Truthy(selected_catalog) /\ Truthy(c)
                               THEN Call("tables_df", ShowTablesSQL(selected_catalog, c))
                               ELSE Finish("done")
    /\ UNCHANGED <<pass, queries, catalog_work, table_work,
                   selected_catalog, selected_table, table_fqn, conn, shared_vars>>

\* Lines 112-132.
TableStage ==
    /\ pc = "tables_df" /\ rq = "returned"
    /\ IF DfEmpty(result)
       THEN /\ \/ Stop(<< Elem("warning", "No tables in this schema.") >>)
               \/ Interrupt(<<>>)
            /\ UNCHANGED <<table_work, selected_table, table_fqn>>
       ELSE IF TableColumn(result) = 0
       THEN /\ Propagate("IndexError")
            /\ UNCHANGED <<table_work, selected_table, table_fqn>>
       ELSE LET list == DropNa(Column(result, TableColumn(result))) IN
            /\ table_list' = list
            /\ \/ /\ Interrupt(<<>>)
                  /\ UNCHANGED <<table_filter, filtered_tables, default_idx,
                                 selected_table, table_fqn>>
               \/ \E f \in Filters :
                    LET filtered == FilterList(list, f) IN
                    /\ table_filter' = f
                    /\ filtered_tables' = filtered
                    /\ \/ /\ filtered = <<>>
                          /\ \/ Stop(<< Elem("text_input", "Table filter"),
                                        Elem("warning", "No tables match.") >>)
                             \/ Interrupt(<< Elem("text_input", "Table filter") >>)
                          /\ UNCHANGED <<default_idx, selected_table, table_fqn>>
                       \/ /\ filtered # <<>>
                          /\ default_idx' = DefaultIdx(filtered)
                          /\ \/ /\ Interrupt(<< Elem("text_input", "Table filter") >>)
                                /\ UNCHANGED <<selected_table, table_fqn>>
                             \/ \E c \in Range(filtered) :
                                LET boxes == << Elem("text_input", "Table filter"),
                                                Selectbox("Table", default_idx') >>
                                IN
                                /\ selected_table' = c
                                /\ IF Truthy(selected_catalog)
                                        /\ Truthy(selected_schema) /\ Truthy(c)
                                   THEN /\ table_fqn' =
                                            TableFqn(selected_catalog, selected_schema, c)
                                        /\ \/ /\ rendered' = rendered \o boxes
                                                    \o << Subheader(table_fqn') >>
                                              /\ Call("preview_df", PreviewSQL(table_fqn'))
                                           \/ Interrupt(boxes)
                                   ELSE /\ rendered' = rendered \o boxes
                                        /\ Finish("done")
                                        /\ UNCHANGED table_fqn
    /\ UNCHANGED <<pass, queries, catalog_work, schema_work,
                   selected_catalog, selected_schema, conn, shared_vars>>

(***************************************************************************)
(* Analytics Panel (lines 128-256).  One step per query: it renders the     *)
(* value run_query returned and runs on to the next call of run_query.      *)
(***************************************************************************)
\* `if not df.empty: <shown> else: st.info(<text>)`
ShownOrInfo(df, shown, text) == IF ~DfEmpty(df) THEN shown ELSE Elem("info", text)

\* Position (1-based) of the column called name, 0 when there is none.
ColumnIndex(df, name) ==
    IF name \in Range(df.columns)
    THEN CHOOSE k \in 1..Len(df.columns) :
            df.columns[k] = name /\ \A j \in 1..(k - 1) : df.columns[j] # name
    ELSE 0

\* What line 149+k raises when it reads and converts its value, "none" when
\* it raises nothing.  kpi[column][0] raises KeyError without the column or
\* without a row 0; int(), float() and the format `:,.2f` raise TypeError
\* on None; int() raises ValueError on NaN, which float() and the format
\* accept.
KpiRaises(df, k) ==
    LET c == ColumnIndex(df, KpiColumns[k]) IN
    IF c = 0 \/ Len(df.rows) = 0 THEN "KeyError"
    ELSE IF df.rows[1][c] = Null THEN "TypeError"
    ELSE IF df.rows[1][c] = NaN /\ k \in {1, 3, 4} THEN "ValueError"
    ELSE "none"

\* The first of lines 150-154 that raises (1..5), 0 when none does.
KpiFailure(df) ==
    IF \E k \in 1..Len(KpiColumns) : KpiRaises(df, k) # "none"
    THEN CHOOSE k \in 1..Len(KpiColumns) :
            /\ KpiRaises(df, k) # "none"
            /\ \A j \in 1..(k - 1) : KpiRaises(df, j) = "none"
    ELSE 0

\* The metrics of lines 150-154.
KpiMetrics ==
    << Elem("metric", "Total Claims"), Elem("metric", "Total Charges"),
       Elem("metric", "Unique Members"), Elem("metric", "Unique Providers"),
       Elem("metric", "Denial Rate") >>

panel_frame == <<pass, queries, selector_vars, conn, shared_vars>>

\* A panel shows elems and the script calls run_query for the next one,
\* unless the pass is ended at one of the st.* calls on the way.
Panel(elems, tail, site, sql) ==
    \/ rendered' = rendered \o elems /\ Call(site, sql)
    \/ InterruptWithin(elems, tail)

\* Lines 133-148.
PreviewPanel ==
    /\ pc = "preview_df" /\ rq = "returned"
    /\ Panel(<< ShownOrInfo(result, Elem("dataframe", "preview_df"), "No data found.") >>,
             FALSE, "kpi", KpiSQL(table_fqn))
    /\ UNCHANGED panel_frame

\* Lines 149-158: st.columns(5), the five metrics one after the other,
\* st.columns(2).  There is no test of kpi.empty and the values are
\* converted as they are: the first line that cannot read or convert its
\* value raises, after the metrics of the lines before it were shown.
KpiPanel ==
    /\ pc = "kpi" /\ rq = "returned"
    /\ LET k == KpiFailure(result) IN
        \/ /\ k = 0
           /\ Panel(KpiMetrics, TRUE, "status_df", StatusSQL(table_fqn))
        \/ /\ k # 0
           /\ rendered' = rendered \o SubSeq(KpiMetrics, 1, k - 1)
                            \o << Exception(KpiRaises(result, k)) >>
           /\ Finish("error")
        \/ /\ k # 0
           /\ InterruptWithin(SubSeq(KpiMetrics, 1, k - 1), k = 1)
    /\ UNCHANGED panel_frame

\* Lines 159-171.
StatusPanel ==
    /\ pc = "status_df" /\ rq = "returned"
    /\ Panel(<< Elem("markdown", "#### Claims by Status"),
                ShownOrInfo(result, Elem("bar_chart", "status_df"),
                            "No claims status data.") >>,
             FALSE, "trend_df", MonthlyTrendSQL(table_fqn))
    /\ UNCHANGED panel_frame

\* Lines 172-189, with st.columns(2) of line 180.
TrendPanel ==
    /\ pc = "trend_df" /\ rq = "returned"
    /\ Panel(<< Elem("markdown", "#### Monthly Charges & Denials"),
                ShownOrInfo(result, Elem("line_chart", "trend_df"), "No trend data.") >>,
             TRUE, "denial_reason_df", DenialReasonSQL(table_fqn))
    /\ UNCHANGED panel_frame

\* Lines 190-206.
DenialReasonPanel ==
    /\ pc = "denial_reason_df" /\ rq = "returned"
    /\ Panel(<< Elem("markdown", "#### Top Denial Reasons (Diagnosis)"),
                ShownOrInfo(result, Elem("bar_chart", "denial_reason_df"),
                            "No denials by reason.") >>,
             FALSE, "denial_by_provider", DenialByProviderSQL(table_fqn))
    /\ UNCHANGED panel_frame

\* Lines 207-221, with st.columns(2) of line 215.
DenialByProviderPanel ==
    /\ pc = "denial_by_provider" /\ rq = "returned"
    /\ Panel(<< Elem("markdown", "#### Providers with Highest Denial Rate"),
                ShownOrInfo(result, Elem("bar_chart", "denial_by_provider"),
                            "No denial/provider data.") >>,
             TRUE, "diag_df", DiagSQL(table_fqn))
    /\ UNCHANGED panel_frame

\* Lines 222-234.
DiagPanel ==
    /\ pc = "diag_df" /\ rq = "returned"
    /\ Panel(<< Elem("markdown", "#### Top Diagnoses by Cost"),
                ShownOrInfo(result, Elem("bar_chart", "diag_df"), "No diagnoses data.") >>,
             FALSE, "prov_df", ProvSQL(table_fqn))
    /\ UNCHANGED panel_frame

\* Lines 235-252.
ProvPanel ==
    /\ pc = "prov_df" /\ rq = "returned"
    /\ Panel(<< Elem("markdown", "#### Top Providers by Total Charge"),
                ShownOrInfo(result, Elem("dataframe", "prov_df"), "No provider data."),
                Elem("markdown", "#### Outlier High-Charge Claims") >>,
             FALSE, "outliers_df", OutlierSQL(table_fqn))
    /\ UNCHANGED panel_frame

\* Lines 253-256, the end of the script.
OutlierPanel ==
    /\ pc = "outliers_df" /\ rq = "returned"
    /\ \/ /\ rendered' = Append(rendered,
                ShownOrInfo(result, Elem("dataframe", "outliers_df"),
                            "No outlier claims found."))
          /\ Finish("done")
       \/ Interrupt(<<>>)
    /\ UNCHANGED panel_frame

(***************************************************************************)
(* Render passes.                                                           *)
(***************************************************************************)
\* Lines 47-76: st.set_page_config, st.title, Config(), st.columns(3) and
\* the call run_query("SHOW CATALOGS").  Config() resolves the credentials
\* on every pass and raises when it cannot.
PageSetup ==
    /\ pc = "start"
    /\ \/ Interrupt(<<>>)
       \/ /\ rendered' = rendered \o << Title, Exception("ValueError") >>
          /\ Finish("error")
       \/ Interrupt(<< Title >>)
       \/ /\ rendered' = Append(rendered, Title)
          /\ Call("catalogs_df", ShowCatalogsSQL)
    /\ UNCHANGED <<pass, queries, selector_vars, conn, shared_vars>>

\* The state of a script run at its first statement: an empty page, no
\* variable of the script bound.
PassStart ==
    /\ rendered' = <<>>
    /\ queries' = <<>>
    /\ pc' = "start" /\ rq' = "idle" /\ query' = None /\ result' = NoResult
    /\ conn' = NoConn
    /\ catalog_list' = <<>> /\ catalog_filter' = None /\ filtered_catalogs' = <<>>
    /\ schema_list' = <<>> /\ schema_filter' = None /\ filtered_schemas' = <<>>
    /\ table_list' = <<>> /\ table_filter' = None /\ filtered_tables' = <<>>
    /\ default_idx' = 0
    /\ selected_catalog' = None /\ selected_schema' = None
    /\ selected_table' = None /\ table_fqn' = None

\* An interaction of the session's user makes the host execute the script
\* again, once the pass before has ended (by itself or by Interrupt);
\* nothing of that pass is carried over, the cached connection stays.
Rerun ==
    /\ ~Running
    /\ pass < MaxPasses
    /\ pass' = pass + 1
    /\ PassStart
    /\ UNCHANGED shared_vars

Init ==
    /\ cache = NoConn /\ connects = 0 /\ open_cursors = 0
    /\ other_rq = [s \in OtherSessions |-> "idle"]
    /\ pass = 1
    /\ rendered = <<>>
    /\ queries = <<>>
    /\ pc = "start" /\ rq = "idle" /\ query = None /\ result = NoResult
    /\ conn = NoConn
    /\ catalog_list = <<>> /\ catalog_filter = None /\ filtered_catalogs = <<>>
    /\ schema_list = <<>> /\ schema_filter = None /\ filtered_schemas = <<>>
    /\ table_list = <<>> /\ table_filter = None /\ filtered_tables = <<>>
    /\ default_idx = 0
    /\ selected_catalog = None /\ selected_schema = None
    /\ selected_table = None /\ table_fqn = None

Next ==
    \/ PageSetup
    \/ RunQueryGetConnection \/ RunQueryCursor
    \/ RunQueryExecute \/ RunQueryFetch \/ RunQueryExit
    \/ CatalogStage \/ SchemaStage \/ TableStage
    \/ PreviewPanel \/ KpiPanel \/ StatusPanel \/ TrendPanel
    \/ DenialReasonPanel \/ DenialByProviderPanel \/ DiagPanel \/ ProvPanel
    \/ OutlierPanel
    \/ Rerun
    \/ OtherRunQueryGetConnection \/ OtherRunQueryCursor \/ OtherRunQueryExit

Spec == Init /\ [][Next]_vars

(***************************************************************************)
(* Properties.                                                              *)
(***************************************************************************)
Last(seq) == seq[Len(seq)]
NonEmptyName(x) == x # None /\ Len(x) > 0
Dot == <<".">>
\* The pass is inside the with block of run_query; the other sessions that
\* are inside theirs.
InRunQuery == rq \in {"cursor", "executed", "fetched", "raising"}
OthersOpen == {s \in OtherSessions : other_rq[s] = "cursor"}
ListingSites == <<"catalogs_df", "schemas_df", "tables_df">>
AnalyticsSites ==
    {"preview_df", "kpi", "status_df", "trend_df", "denial_reason_df",
     "denial_by_provider", "diag_df", "prov_df", "outliers_df"}
BoxesIn(elems) == {i \in DOMAIN elems : elems[i].kind = "selectbox"}
HasLabel(e, text) == e.label = <<text>>

\* The step is one of the session's own pass, not of another session.
OwnStep == <<pc, rq>>' # <<pc, rq>>

\* f, lower-cased, occurs in c, lower-cased, at some offset.
ContainsIgnoringCase(f, c) ==
    LET lf == Lower(f)
        lc == Lower(c)
    IN  \E off \in 0..Len(lc) :
            /\ off + Len(lf) <= Len(lc)
            /\ \A k \in 1..Len(lf) : lf[k] = lc[off + k]

\* kept holds exactly the entries of list that contain f, in list's order.
IsOrderedSelection(kept, list, f) ==
    LET hits == {i \in 1..Len(list) : ContainsIgnoringCase(f, list[i])}
    IN  /\ Len(kept) = Cardinality(hits)
        /\ \A i \in hits : kept[Cardinality({h \in hits : h <= i})] = list[i]

\* The step binds a filter text to `filter`, and with it the filtered list
\* `kept` of the candidates `list`.
C1_StageFilters(filter, kept, list) ==
    /\ (filter' # filter /\ filter' # None) =>
        /\ IsOrderedSelection(kept', list', filter')
        /\ filter' = <<>> => kept' = list'
        /\ Range(kept') \subseteq Range(list')
    /\ (kept' # kept \/ (list' # list /\ filter # None)) => filter' # filter

\* C1: at each selector stage the filtered list is exactly the candidates
\* that contain the filter case-insensitively, in the candidates' order; the
\* empty filter keeps every candidate and nothing is added.  (The filtered
\* list and the candidates change only together with the filter.)
C1_FilteredIsSubstringSubset ==
    [][/\ C1_StageFilters(catalog_filter, filtered_catalogs, catalog_list)
       /\ C1_StageFilters(schema_filter, filtered_schemas, schema_list)
       /\ C1_StageFilters(table_filter, filtered_tables, table_list)]_vars

C1_Witness ==
    /\ catalog_filter = <<"C","L","A">>
    /\ catalog_list = <<sales, Claims_DB>> /\ filtered_catalogs = <<Claims_DB>>
    /\ schema_filter = <<"T","U+00E9">>
    /\ schema_list = <<raw, Iste>> /\ filtered_schemas = <<Iste>>
    /\ table_filter = <<"C","L","A">>
    /\ Len(table_list) = 3 /\ filtered_tables = <<Claims_Enriched, claims_enriched>>

\* C2: the table selectbox is built with "claims_enriched" pre-selected
\* whenever that name is in the filtered table list, wherever it stands, and
\* with the first entry otherwise; the catalog and schema selectboxes are
\* always built with their first entry pre-selected.
C2_DefaultSelection ==
    \A i \in BoxesIn(rendered) :
        LET box == rendered[i] IN
        /\ HasLabel(box, "Catalog") => box.index = 0 /\ filtered_catalogs # <<>>
        /\ HasLabel(box, "Schema") => box.index = 0 /\ filtered_schemas # <<>>
        /\ HasLabel(box, "Table") =>
            /\ box.index = default_idx
            /\ box.index + 1 \in DOMAIN filtered_tables
            /\ IF \E j \in DOMAIN filtered_tables : filtered_tables[j] = claims_enriched
               THEN filtered_tables[box.index + 1] = claims_enriched
               ELSE box.index = 0

C2_Witness ==
    /\ filtered_tables = <<Claims_Enriched, claims_enriched>>
    /\ table_filter = <<"C","L","A">>
    /\ \E i \in BoxesIn(rendered) :
        HasLabel(rendered[i], "Table") /\ rendered[i].index = 1

\* The two notices of stage n (1 catalog, 2 schema, 3 table).
NoCandidates(n) ==
    CASE n = 1 -> Elem("error", "No catalogs available; check permissions.")
      [] n = 2 -> Elem("error", "No schemas found.")
      [] n = 3 -> Elem("warning", "No tables in this schema.")
NoMatch(n) ==
    CASE n = 1 -> Elem("warning", "No catalogs match.")
      [] n = 2 -> Elem("warning", "No schemas match.")
      [] n = 3 -> Elem("warning", "No tables match.")
StageFilter(n) ==
    CASE n = 1 -> catalog_filter [] n = 2 -> schema_filter [] n = 3 -> table_filter
StageFiltered(n) ==
    CASE n = 1 -> filtered_catalogs [] n = 2 -> filtered_schemas
      [] n = 3 -> filtered_tables
StageSelected(n) ==
    CASE n = 1 -> selected_catalog [] n = 2 -> selected_schema
      [] n = 3 -> selected_table

\* A pass that is over stays as it ended until the host runs the script
\* again; steps of other sessions do not touch it.
OnlyRerunLeaves(p) == pc = p => (pass' = pass + 1 \/ UNCHANGED script_vars)

\* A pass that has stopped did so at the stage n of its last listing query,
\* right after one of that stage's two notices, which tells the cause; the
\* stage built no selectbox, and nothing of a later stage exists.
C3_StoppedState ==
    pc = "stopped" =>
        LET n == Len(queries) IN
        /\ n \in 1..3
        /\ rq = "idle"
        /\ Last(rendered) \in {NoCandidates(n), NoMatch(n)}
        /\ Last(rendered) = NoCandidates(n) <=> StageFilter(n) = None
        /\ Last(rendered) = NoMatch(n) <=>
                (StageFilter(n) # None /\ StageFiltered(n) = <<>>)
        /\ Cardinality(BoxesIn(rendered)) = n - 1
        /\ \A m \in n..3 : StageSelected(m) = None
        /\ \A m \in (n + 1)..3 : StageFilter(m) = None
        /\ table_fqn = None

\* An empty filtered list at a stage means the pass is over at that stage:
\* stopped, or ended by the host at the st.warning call, with no selection.
C3_NoMatchStops ==
    \A n \in 1..3 :
        /\ NoCandidates(n) # NoMatch(n)
        /\ (StageFilter(n) # None /\ StageFiltered(n) = <<>>) =>
                /\ pc \in {"stopped", "interrupted"}
                /\ Len(queries) = n
                /\ \A m \in n..3 : StageSelected(m) = None
                /\ Cardinality(BoxesIn(rendered)) = n - 1

\* A listing that comes back without rows or columns ends the pass in its
\* very next step: it is stopped with the stage's "no candidates" notice and
\* nothing else, unless the host ends it at that st.* call.
C3_EmptyListingStops ==
    \A n \in 1..3 :
        (/\ pc = ListingSites[n] /\ rq = "returned"
         /\ (Len(result.rows) = 0 \/ Len(result.columns) = 0)
         /\ OwnStep) =>
            /\ queries' = queries
            /\ \/ pc' = "stopped" /\ rendered' = Append(rendered, NoCandidates(n))
               \/ pc' = "interrupted" /\ rendered' = rendered

\* C3: an empty candidate list or an empty filtered list at a selector stage
\* halts the pass at that stage after a notice: no selectbox of that stage,
\* no query or widget of a later stage, no analytics query; the two notices
\* of a stage differ.  (A pass the host ends for a rerun at the call that
\* would show the notice halts there as well, without the notice.)
C3_EmptyStageHalts ==
    /\ [](C3_StoppedState /\ C3_NoMatchStops)
    /\ [][C3_EmptyListingStops]_vars
    /\ [][OnlyRerunLeaves("stopped") /\ OnlyRerunLeaves("interrupted")]_vars

C3_Witness ==
    /\ pc = "stopped" /\ Len(queries) = 2
    /\ Last(rendered) = Elem("error", "No schemas found.")
    /\ selected_catalog = sales

\* A statement is scoped to the selections made so far, all non-empty.
C4_Scoped(q) ==
    \/ q = <<"SHOW CATALOGS">>
    \/ /\ Head(q) = "SHOW SCHEMAS IN "
       /\ NonEmptyName(selected_catalog)
       /\ Tail(q) = selected_catalog
    \/ /\ Head(q) = "SHOW TABLES IN "
       /\ NonEmptyName(selected_catalog) /\ NonEmptyName(selected_schema)
       /\ Tail(q) = selected_catalog \o Dot \o selected_schema
    \/ /\ Head(q) \notin {"SHOW CATALOGS", "SHOW SCHEMAS IN ", "SHOW TABLES IN "}
       /\ \A n \in 1..3 : NonEmptyName(StageSelected(n))
       /\ table_fqn = selected_catalog \o Dot \o selected_schema \o Dot \o selected_table
       /\ StrIn(table_fqn, q)

\* C4: SHOW SCHEMAS is issued only for a selected non-empty catalog, SHOW
\* TABLES only for a selected non-empty catalog and schema, table_fqn and
\* the analytics queries only when all three are selected and non-empty; a
\* stage whose parent is unset is skipped: no query, no widget, no notice.
C4_StagesGated ==
    /\ \A i \in DOMAIN queries : C4_Scoped(queries[i])
    /\ rq # "idle" => C4_Scoped(query)
    /\ table_fqn # None => \A n \in 1..3 : NonEmptyName(StageSelected(n))
    /\ \A n \in 1..3 :
        StageSelected(n) = <<>> =>
            /\ pc = "done" /\ rq = "idle"
            /\ Len(queries) = n
            /\ Last(rendered).kind = "selectbox"
            /\ Cardinality(BoxesIn(rendered)) = n
            /\ table_fqn = None
            /\ \A m \in (n + 1)..3 : StageFilter(m) = None /\ StageSelected(m) = None

C4_Witness ==
    /\ pc = "done" /\ selected_catalog = sales /\ selected_schema = <<>>
    /\ Len(queries) = 2

\* The cache holds the one handle ever created, and a call in progress uses it.
C5_OneHandle ==
    /\ connects \in {0, 1}
    /\ cache = NoConn <=> connects = 0
    /\ cache # NoConn => cache = [id |-> 1]
    /\ (InRunQuery \/ rq = "connected") => (conn = cache /\ cache # NoConn)
    /\ (\E s \in OtherSessions : other_rq[s] # "idle") => cache # NoConn

\* C5: over all passes and run_query calls of the process, those of other
\* sessions included, the connection is established at most once, by a
\* run_query call that is at get_connection and not before; every later
\* call uses that handle, which is never replaced or dropped.
C5_ConnectionMemoized ==
    /\ []C5_OneHandle
    /\ [][cache # NoConn => cache' = cache]_vars
    /\ [][cache' # cache =>
            \/ rq = "call" /\ rq' = "connected" /\ conn' = cache'
            \/ rq = "call" /\ pc' = "interrupted"
            \/ \E s \in OtherSessions :
                    other_rq[s] = "idle" /\ other_rq'[s] = "connected"]_vars

C5_Witness ==
    /\ pass = 2 /\ rq = "executed" /\ connects = 1 /\ conn = [id |-> 1]
    /\ Len(queries) = 2 /\ OthersOpen # {}

\* C6 as claimed, its last part: at most one cursor is open at any time.
C6_AtMostOneCursorOpen == open_cursors <= 1

\* C6 as amended: the session's pass has a cursor open exactly while its
\* run_query call is between opening it and leaving the with block, never
\* more than one, and none once the call has returned or failed, whichever
\* step raised; every cursor that is open belongs to a run_query call in
\* progress, of this session or of another, so none is left open when no
\* call is in progress.
C6_CursorReleased ==
    LET own == open_cursors - Cardinality(OthersOpen) IN
    /\ own \in {0, 1}
    /\ own = 1 <=> InRunQuery
    /\ rq \in {"idle", "call", "connected", "returned"} => own = 0
    /\ (~InRunQuery /\ OthersOpen = {}) => open_cursors = 0

C6_Witness ==
    /\ pc = "error" /\ open_cursors = 0 /\ pass = 2
    /\ Last(rendered) = Exception("QueryExecutionError")
    /\ Len(queries) = 4

PreviewElems == {Elem("dataframe", "preview_df"), Elem("info", "No data found.")}
QueryFailure == Exception("QueryExecutionError")

\* C7 as claimed: once the preview has rendered its placeholder, a failing
\* KPI query is fatal for the KPI panel only: the step that handles the
\* failure leaves the pass running, so that the later panels are queried.
C7_KpiFailureLocalToPanel ==
    [][(/\ pc = "kpi" /\ rq = "raising" /\ OwnStep
        /\ Last(rendered) = Elem("info", "No data found."))
            => pc' \notin {"error", "stopped", "done", "interrupted"}]_vars

\* C7 as amended: a failing KPI query ends the whole pass.  The preview
\* element rendered before it stays, followed by the exception; no metric,
\* no later query and no later panel is produced in that pass.
C7_KpiFailureAbortsPass ==
    /\ [][(pc = "kpi" /\ rq = "raising" /\ OwnStep) =>
            /\ pc' = "error" /\ rq' = "idle"
            /\ queries' = queries
            /\ rendered' = Append(rendered, QueryFailure)]_vars
    /\ []((pc = "error" /\ Len(queries) = 5 /\ Last(rendered) = QueryFailure) =>
            /\ rendered[Len(rendered) - 1] \in PreviewElems
            /\ \A i \in DOMAIN rendered : rendered[i].kind # "metric"
            /\ Head(Last(queries)) = Head(KpiSQL(<<>>)))
    /\ [][OnlyRerunLeaves("error")]_vars

C7_Witness ==
    /\ pc = "error" /\ Len(queries) = 5
    /\ Last(rendered) = QueryFailure
    /\ rendered[Len(rendered) - 1] = Elem("info", "No data found.")

\* No statement is issued twice in a pass.
C8_NoRetry == \A i, j \in DOMAIN queries : i # j => queries[i] # queries[j]

\* C8: a failing query (the connection cannot be established, or execute or
\* fetch raises) ends the pass at that point: the statement is not issued
\* again, nothing later is issued or rendered, what was rendered before
\* stays; when the connection cannot be established the pass executes no
\* statement at all.
C8_FailureAbortsPass ==
    /\ [][(rq = "raising" /\ OwnStep) =>
            /\ pc' = "error" /\ rq' = "idle"
            /\ queries' = queries
            /\ rendered' = Append(rendered, QueryFailure)]_vars
    /\ [][(rq = "call" /\ OwnStep /\ rq' # "connected" /\ pc' # "interrupted") =>
            /\ pc' = "error" /\ rq' = "idle"
            /\ queries' = queries /\ open_cursors' = open_cursors
            /\ rendered' = Append(rendered, Exception("ConnectionError"))]_vars
    /\ [](C8_NoRetry /\ (pc = "error" => rq = "idle"))
    /\ []((\E i \in DOMAIN rendered : rendered[i] = Exception("ConnectionError"))
            => (queries = <<>> /\ pc = "error"))
    /\ [][OnlyRerunLeaves("error")]_vars

C8_Witness ==
    /\ pc = "error" /\ Len(queries) = 7
    /\ Last(rendered) = QueryFailure
    /\ \E i \in DOMAIN rendered : rendered[i] = Elem("bar_chart", "status_df")

\* C9 as claimed: for every analytics query, a result without rows makes
\* the panel render a "no data" placeholder, no error is raised and the
\* pass continues (unless the host ends it for a rerun).
C9_EmptyResultRendersPlaceholder ==
    [][(/\ pc \in AnalyticsSites /\ rq = "returned" /\ Len(result.rows) = 0
        /\ OwnStep /\ pc' # "interrupted") =>
            /\ pc' # "error"
            /\ \E i \in (Len(rendered) + 1)..Len(rendered') :
                    rendered'[i].kind = "info"]_vars

StageList(n) ==
    CASE n = 1 -> catalog_list [] n = 2 -> schema_list [] n = 3 -> table_list

\* The statements a pass issues, as a function of its selections alone.
C10_Statements ==
    LET c == selected_catalog
        s == selected_schema
        t == selected_table
    IN  << <<"SHOW CATALOGS">> >>
        \o (IF NonEmptyName(c) THEN << <<"SHOW SCHEMAS IN ">> \o c >> ELSE <<>>)
        \o (IF NonEmptyName(c) /\ NonEmptyName(s)
            THEN << <<"SHOW TABLES IN ">> \o c \o Dot \o s >> ELSE <<>>)
        \o (IF NonEmptyName(c) /\ NonEmptyName(s) /\ NonEmptyName(t)
            THEN AnalyticsSQL(c \o Dot \o s \o Dot \o t) ELSE <<>>)

\* C10: the filter texts never reach a statement: every selected name is one
\* of the candidates the warehouse listed at its stage in this pass, and the
\* statements issued so far, and the one being issued, are those determined
\* by the selected catalog, schema and table alone.
C10_FiltersNeverInSQL ==
    LET statements == C10_Statements IN
    /\ \A n \in 1..3 :
        StageSelected(n) # None =>
            \E i \in DOMAIN StageList(n) : StageList(n)[i] = StageSelected(n)
    /\ Len(queries) <= Len(statements)
    /\ queries = SubSeq(statements, 1, Len(queries))
    /\ rq \in {"call", "connected", "cursor"} =>
        /\ Len(queries) < Len(statements)
        /\ query = statements[Len(queries) + 1]
    /\ rq \in {"executed", "fetched", "raising", "returned"} => query = Last(queries)

C10_Witness ==
    /\ pc = "done" /\ Len(queries) = 12
    /\ catalog_filter = <<"C","L","A">>
    /\ schema_filter = <<"T","U+00E9">>
    /\ table_filter = <<"C","L","A">>
    /\ selected_table = Claims_Enriched

====
